---- MODULE Spec2Model ----
(***************************************************************************)
(* Model of rotkehlchen/accounting/cost_basis.py: the CostBasisCalculator   *)
(* and its per-asset FIFO ledgers of acquisitions and spends.               *)
(*                                                                          *)
(* Amounts, rates and costs are FVal decimals in the program; the model     *)
(* uses integers (whole units), on which FVal arithmetic is exact.          *)
(* Optional[...] values are modelled as sets: {} is None, {v} is v.         *)
(***************************************************************************)
EXTENDS Integers, Sequences, FiniteSets, TLC

VARIABLES
    _events,               \* CostBasisCalculator._events: asset -> CostBasisEvents (a defaultdict)
    taxfree_after_period,  \* settings.taxfree_after_period: {} (None) or {seconds}
    next_id,               \* identity of the next AssetAcquisitionEvent object created
    call,                  \* the public method called last
    ret,                   \* what that call returned
    msgs,                  \* what that call sent to msg_aggregator.add_error
    logs,                  \* what that call logged with log.critical
    obtained,              \* history: lot id -> ledger the lot was appended to, since reset
    book                   \* history: per ledger, acquired minus disposed amounts, since reset

vars == <<_events, taxfree_after_period, next_id, call, ret, msgs, logs, obtained, book>>

----------------------------------------------------------------------------
(* Program constants *)

A_ETH  == "ETH"
A_WETH == "WETH"
A_ETC  == "ETC"
A_BTC  == "BTC"
A_BCH  == "BCH"
A_BSV  == "BSV"
A_EUR  == "EUR"

\* the fork timestamps of rotkehlchen.constants
ETH_DAO_FORK_TS == 1469020840
BTC_BCH_FORK_TS == 1501593374
BCH_BSV_FORK_TS == 1542304800

ZERO == 0

\* FVal('-1'), the "no partially used acquisition" mark of both FIFO walks
NO_LAST_BUY == 0 - 1

----------------------------------------------------------------------------
(* Bounds of the model *)

MaxLots     == 2   \* acquisitions created since the last reset, all assets
MaxFIFOLots == 3   \* the same, in the single-ledger specification
MaxAmount   == 2   \* an acquisition is of 1..MaxAmount units
MaxSpends   == 1   \* spend_asset calls since the last reset
MaxSpendRecords == 2   \* the same, in the specification of repeated spends
Period      == 1   \* the tax-free holding period, when one is configured

Assets      == {A_ETH, A_WETH, A_ETC, A_BTC, A_BCH, A_BSV, A_EUR}
FIFOAssets  == {A_ETH, A_WETH}
Fiat        == {A_EUR}

\* one second before the DAO fork, the fork itself, and later
Timestamps   == (ETH_DAO_FORK_TS - 1) .. (ETH_DAO_FORK_TS + Period)
\* acquisitions of the single-ledger specification are made up to the fork
EarlyTimestamps == {t \in Timestamps : t <= ETH_DAO_FORK_TS}
\* one second before each of the two Bitcoin forks, and the forks themselves
BitcoinForkTimestamps ==
    {BTC_BCH_FORK_TS - 1, BTC_BCH_FORK_TS, BCH_BSV_FORK_TS - 1, BCH_BSV_FORK_TS}
ForkTimestamps == EarlyTimestamps \cup BitcoinForkTimestamps
LotAmounts   == 1 .. MaxAmount
SpendAmounts == 0 .. (MaxAmount + 1)
Rates        == {1, 2}
Locations    == {"kraken"}
Periods      == {{}, {Period}}

----------------------------------------------------------------------------
(* Helpers on sequences *)

Min(a, b) == IF a < b THEN a ELSE b
Max(a, b) == IF a > b THEN a ELSE b

\* Python's seq[:k]
SliceTo(seq, k) ==
    LET n == IF k >= 0 THEN Min(k, Len(seq)) ELSE Max(Len(seq) + k, 0)
    IN  SubSeq(seq, 1, n)

\* Python's seq after del seq[:k]
DelTo(seq, k) ==
    LET n == IF k >= 0 THEN Min(k, Len(seq)) ELSE Max(Len(seq) + k, 0)
    IN  SubSeq(seq, n + 1, Len(seq))

RECURSIVE SumRemaining(_)
SumRemaining(seq) ==
    IF seq = <<>> THEN 0
    ELSE Head(seq).remaining_amount + SumRemaining(Tail(seq))

RECURSIVE SumMatched(_)
SumMatched(seq) ==
    IF seq = <<>> THEN 0
    ELSE Head(seq).amount + SumMatched(Tail(seq))

Ids(seq) == {seq[i].id : i \in 1 .. Len(seq)}

----------------------------------------------------------------------------
(* Data *)

\* AssetAcquisitionEvent(event): remaining_amount starts as the event's amount
AssetAcquisitionEvent(id, amount, timestamp, rate) ==
    [id |-> id, amount |-> amount, remaining_amount |-> amount,
     timestamp |-> timestamp, rate |-> rate]

AssetSpendEvent(timestamp, location, amount, rate) ==
    [timestamp |-> timestamp, location |-> location, amount |-> amount, rate |-> rate]

\* CostBasisEvents(): three empty lists
CostBasisEvents ==
    [used_acquisitions |-> <<>>, acquisitions |-> <<>>, spends |-> <<>>]

MatchedAcquisition(amount, event) == [amount |-> amount, event |-> event.id]

CostBasisInfo(taxable_amount, taxable_bought_cost, taxfree_bought_cost, matched_acquisitions, is_complete) ==
    [type |-> "CostBasisInfo",
     taxable_amount |-> taxable_amount,
     taxable_bought_cost |-> taxable_bought_cost,
     taxfree_bought_cost |-> taxfree_bought_cost,
     matched_acquisitions |-> matched_acquisitions,
     is_complete |-> is_complete]

None == [type |-> "None"]
Bool(b) == [type |-> "bool", value |-> b]

is_fiat(asset) == asset \in Fiat

----------------------------------------------------------------------------
(* get_events: WETH shares the ledger of ETH; the defaultdict creates the   *)
(* ledger of an asset on its first lookup.                                  *)

\* LedgerKey without the alias: every asset has a ledger of its own
LedgerKey_own(asset) == asset

LedgerKey(asset) == IF asset = A_WETH THEN A_ETH ELSE asset

Lookup(evs, asset) ==
    [k \in DOMAIN evs \cup {LedgerKey(asset)} |->
        IF k \in DOMAIN evs THEN evs[k] ELSE CostBasisEvents]

get_events(evs, asset) == Lookup(evs, asset)[LedgerKey(asset)]

----------------------------------------------------------------------------
(* inform_user_missing_acquisition: one add_error per call, in one of two   *)
(* forms, chosen by found_amount being None.  Of the text of the message    *)
(* the model keeps its form and the two amounts it reports.                 *)

\* inform_user_missing_acquisition with the two amounts exchanged
inform_user_missing_acquisition_swapped(asset, time, found_amount, missing_amount) ==
    IF found_amount = {}
    THEN [form |-> "no_acquisition"]
    ELSE [form |-> "not_enough", found_amount |-> missing_amount,
          missing_amount |-> found_amount]

inform_user_missing_acquisition(asset, time, found_amount, missing_amount) ==
    IF found_amount = {}
    THEN [form |-> "no_acquisition"]
    ELSE [form |-> "not_enough", found_amount |-> found_amount,
          missing_amount |-> missing_amount]

----------------------------------------------------------------------------
(* calculate_spend_cost_basis                                               *)

\* the holding period compared with <= where the code compares with <
at_taxfree_period_inclusive(acquisition_timestamp, timestamp, period) ==
    IF period = {} THEN FALSE
    ELSE \E p \in period : acquisition_timestamp + p <= timestamp

at_taxfree_period(acquisition_timestamp, timestamp, period) ==
    IF period = {} THEN FALSE
    ELSE \E p \in period : acquisition_timestamp + p < timestamp

\* uses_part_of compared with <= where the code compares with <
uses_part_of_inclusive(remaining_sold_amount, acquisition_event) ==
    remaining_sold_amount <= acquisition_event.remaining_amount

\* the branch of the walk taken for one acquisition
uses_part_of(remaining_sold_amount, acquisition_event) ==
    remaining_sold_amount < acquisition_event.remaining_amount

\* the locals of calculate_spend_cost_basis before its loop
SpendLocals(spending_amount, acquisitions) ==
    [remaining_sold_amount |-> spending_amount,
     stop_index |-> 0 - 1,
     taxfree_bought_cost |-> ZERO,
     taxable_bought_cost |-> ZERO,
     taxable_amount |-> ZERO,
     taxfree_amount |-> ZERO,
     remaining_amount_from_last_buy |-> NO_LAST_BUY,
     matched_acquisitions |-> <<>>,
     acquisitions |-> acquisitions]

\* SpendPart matching the whole remaining amount of the acquisition
SpendPart_whole_match(l, idx, taxfree) ==
    LET acquisition_event == l.acquisitions[idx + 1]
        acquisition_cost == acquisition_event.rate * l.remaining_sold_amount
    IN  [l EXCEPT
            !.stop_index = idx,
            !.taxfree_amount = IF taxfree THEN @ + l.remaining_sold_amount ELSE @,
            !.taxfree_bought_cost = IF taxfree THEN @ + acquisition_cost ELSE @,
            !.taxable_amount = IF taxfree THEN @ ELSE @ + l.remaining_sold_amount,
            !.taxable_bought_cost = IF taxfree THEN @ ELSE @ + acquisition_cost,
            !.remaining_amount_from_last_buy =
                acquisition_event.remaining_amount - l.remaining_sold_amount,
            !.matched_acquisitions =
                Append(@, MatchedAcquisition(acquisition_event.remaining_amount,
                                             acquisition_event))]

\* loop body, the spend uses up part of the acquisition at idx (0-based), then break
SpendPart(l, idx, taxfree) ==
    LET acquisition_event == l.acquisitions[idx + 1]
        acquisition_cost == acquisition_event.rate * l.remaining_sold_amount
    IN  [l EXCEPT
            !.stop_index = idx,
            !.taxfree_amount = IF taxfree THEN @ + l.remaining_sold_amount ELSE @,
            !.taxfree_bought_cost = IF taxfree THEN @ + acquisition_cost ELSE @,
            !.taxable_amount = IF taxfree THEN @ ELSE @ + l.remaining_sold_amount,
            !.taxable_bought_cost = IF taxfree THEN @ ELSE @ + acquisition_cost,
            !.remaining_amount_from_last_buy =
                acquisition_event.remaining_amount - l.remaining_sold_amount,
            !.matched_acquisitions =
                Append(@, MatchedAcquisition(l.remaining_sold_amount, acquisition_event))]

\* loop body, the spend uses up the entire acquisition at idx (0-based)
SpendWhole(l, idx, taxfree) ==
    LET acquisition_event == l.acquisitions[idx + 1]
        acquisition_cost == acquisition_event.rate * acquisition_event.remaining_amount
    IN  [l EXCEPT
            !.remaining_sold_amount = @ - acquisition_event.remaining_amount,
            !.taxfree_amount = IF taxfree THEN @ + acquisition_event.remaining_amount ELSE @,
            !.taxfree_bought_cost = IF taxfree THEN @ + acquisition_cost ELSE @,
            !.taxable_amount = IF taxfree THEN @ ELSE @ + acquisition_event.remaining_amount,
            !.taxable_bought_cost = IF taxfree THEN @ ELSE @ + acquisition_cost,
            !.matched_acquisitions =
                Append(@, MatchedAcquisition(acquisition_event.remaining_amount,
                                             acquisition_event)),
            !.acquisitions[idx + 1].remaining_amount = ZERO,
            !.stop_index = IF idx = Len(l.acquisitions) - 1 THEN idx + 1 ELSE @]

\* for idx, acquisition_event in enumerate(asset_events.acquisitions), from idx on
RECURSIVE SpendLoop(_, _, _, _)
SpendLoop(l, idx, timestamp, period) ==
    IF idx >= Len(l.acquisitions) THEN l
    ELSE LET acquisition_event == l.acquisitions[idx + 1]
             taxfree == at_taxfree_period(acquisition_event.timestamp, timestamp, period)
         IN  IF uses_part_of(l.remaining_sold_amount, acquisition_event)
             THEN SpendPart(l, idx, taxfree)
             ELSE SpendLoop(SpendWhole(l, idx, taxfree), idx + 1, timestamp, period)

\* lots_ran_out without the test of remaining_amount_from_last_buy
lots_ran_out_any_remainder(l) == l.remaining_sold_amount # ZERO

\* acquisitions ran out before the spend was satisfied
lots_ran_out(l) ==
    /\ l.remaining_amount_from_last_buy = NO_LAST_BUY
    /\ l.remaining_sold_amount # ZERO

\* adjusted_amount without the subtraction of the tax-free amount
adjusted_amount_whole(spending_amount, taxfree_amount) == spending_amount

\* the taxable amount of a spend that acquisitions satisfy only in part
adjusted_amount(spending_amount, taxfree_amount) == spending_amount - taxfree_amount

\* NoAcquisitionInfo with nothing taxable
NoAcquisitionInfo_zero(spending_amount) ==
    CostBasisInfo(ZERO, ZERO, ZERO, <<>>, FALSE)

\* the result when the asset has no acquisition at all
NoAcquisitionInfo(spending_amount) ==
    CostBasisInfo(spending_amount, ZERO, ZERO, <<>>, FALSE)

\* SpendBookkeeping without the extend of used_acquisitions
SpendBookkeeping_no_used(asset_events, l) ==
    LET rest == DelTo(l.acquisitions, l.stop_index)
    IN  [asset_events EXCEPT
            !.acquisitions =
                IF l.remaining_amount_from_last_buy # NO_LAST_BUY
                THEN [rest EXCEPT ![1].remaining_amount = l.remaining_amount_from_last_buy]
                ELSE rest]

\* the bookkeeping after the loop, on the ledger of the asset
SpendBookkeeping(asset_events, l) ==
    LET moved == SliceTo(l.acquisitions, l.stop_index)
        rest  == DelTo(l.acquisitions, l.stop_index)
    IN  [asset_events EXCEPT
            !.used_acquisitions = @ \o moved,
            !.acquisitions =
                IF l.remaining_amount_from_last_buy # NO_LAST_BUY
                THEN [rest EXCEPT ![1].remaining_amount = l.remaining_amount_from_last_buy]
                ELSE rest]

\* calculate_spend_cost_basis as a function of the ledgers and the settings:
\* the ledgers after the call, the CostBasisInfo returned, the errors sent
calculate_spend_cost_basis(evs, period, spending_amount, spending_asset, timestamp) ==
    LET key == LedgerKey(spending_asset)
        looked == Lookup(evs, spending_asset)
        asset_events == looked[key]
        l == SpendLoop(SpendLocals(spending_amount, asset_events.acquisitions),
                       0, timestamp, period)
    IN  IF Len(asset_events.acquisitions) = 0
        THEN [events |-> looked,
              info |-> NoAcquisitionInfo(spending_amount),
              msgs |-> <<inform_user_missing_acquisition(spending_asset, timestamp, {}, {})>>]
        ELSE [events |-> [looked EXCEPT ![key] = SpendBookkeeping(asset_events, l)],
              info |-> CostBasisInfo(
                  IF lots_ran_out(l) THEN adjusted_amount(spending_amount, l.taxfree_amount)
                                     ELSE l.taxable_amount,
                  l.taxable_bought_cost,
                  l.taxfree_bought_cost,
                  l.matched_acquisitions,
                  ~lots_ran_out(l)),
              msgs |-> IF lots_ran_out(l)
                       THEN <<inform_user_missing_acquisition(
                                  spending_asset, timestamp,
                                  {l.taxable_amount + l.taxfree_amount},
                                  {l.remaining_sold_amount})>>
                       ELSE <<>>]

----------------------------------------------------------------------------
(* reduce_asset_amount                                                      *)

ReduceLocals(amount) ==
    [remaining_amount_from_last_buy |-> NO_LAST_BUY,
     remaining_amount |-> amount,
     stop_index |-> 0 - 1]

\* ReduceLoop comparing with <= where the code compares with <
RECURSIVE ReduceLoop_inclusive(_, _, _)
ReduceLoop_inclusive(l, acquisitions, idx) ==
    IF idx >= Len(acquisitions) THEN l
    ELSE LET acquisition_event == acquisitions[idx + 1]
         IN  IF l.remaining_amount <= acquisition_event.remaining_amount
             THEN [l EXCEPT
                      !.stop_index = idx,
                      !.remaining_amount_from_last_buy =
                          acquisition_event.remaining_amount - l.remaining_amount]
             ELSE ReduceLoop_inclusive(
                      [l EXCEPT
                          !.remaining_amount = @ - acquisition_event.remaining_amount,
                          !.stop_index = IF idx = Len(acquisitions) - 1 THEN idx + 1 ELSE @],
                      acquisitions, idx + 1)

\* for idx, acquisition_event in enumerate(asset_events.acquisitions), from idx on
RECURSIVE ReduceLoop(_, _, _)
ReduceLoop(l, acquisitions, idx) ==
    IF idx >= Len(acquisitions) THEN l
    ELSE LET acquisition_event == acquisitions[idx + 1]
         IN  IF l.remaining_amount < acquisition_event.remaining_amount
             THEN [l EXCEPT
                      !.stop_index = idx,
                      !.remaining_amount_from_last_buy =
                          acquisition_event.remaining_amount - l.remaining_amount]
             ELSE ReduceLoop(
                      [l EXCEPT
                          !.remaining_amount = @ - acquisition_event.remaining_amount,
                          !.stop_index = IF idx = Len(acquisitions) - 1 THEN idx + 1 ELSE @],
                      acquisitions, idx + 1)

\* ReduceBookkeeping keeping the acquisitions when they do not cover the amount
ReduceBookkeeping_keep_on_failure(asset_events, l) ==
    LET rest == DelTo(asset_events.acquisitions, l.stop_index)
    IN  IF l.remaining_amount_from_last_buy = NO_LAST_BUY /\ l.remaining_amount # ZERO
        THEN asset_events
        ELSE [asset_events EXCEPT
                 !.acquisitions =
                     IF l.remaining_amount_from_last_buy # NO_LAST_BUY
                     THEN [rest EXCEPT ![1].remaining_amount =
                                           l.remaining_amount_from_last_buy]
                     ELSE rest]

\* ReduceBookkeeping without the write of the amount left in the last buy
ReduceBookkeeping_no_leftover(asset_events, l) ==
    [asset_events EXCEPT !.acquisitions = DelTo(@, l.stop_index)]

\* the deletion after the loop: the used up acquisitions are deleted
ReduceBookkeeping(asset_events, l) ==
    LET rest == DelTo(asset_events.acquisitions, l.stop_index)
    IN  [asset_events EXCEPT
            !.acquisitions =
                IF l.remaining_amount_from_last_buy # NO_LAST_BUY
                THEN [rest EXCEPT ![1].remaining_amount = l.remaining_amount_from_last_buy]
                ELSE rest]

\* reduce_asset_amount looking up the ledger before the test of the amount
reduce_asset_amount_lookup_first(evs, asset, amount, timestamp) ==
    LET key == LedgerKey(asset)
        looked == Lookup(evs, asset)
        asset_events == looked[key]
        l == ReduceLoop(ReduceLocals(amount), asset_events.acquisitions, 0)
    IN  IF amount = ZERO
        THEN [events |-> looked, ret |-> TRUE, logs |-> <<>>]
        ELSE IF Len(asset_events.acquisitions) = 0
        THEN [events |-> looked, ret |-> FALSE, logs |-> <<>>]
        ELSE IF l.remaining_amount_from_last_buy = NO_LAST_BUY /\ l.remaining_amount # ZERO
        THEN [events |-> [looked EXCEPT ![key] = ReduceBookkeeping(asset_events, l)],
              ret |-> FALSE,
              logs |-> <<[level |-> "critical"]>>]
        ELSE [events |-> [looked EXCEPT ![key] = ReduceBookkeeping(asset_events, l)],
              ret |-> TRUE,
              logs |-> <<>>]

\* reduce_asset_amount as a function of the ledgers: the ledgers after the
\* call, the boolean returned, the critical log entries written
reduce_asset_amount(evs, asset, amount, timestamp) ==
    LET key == LedgerKey(asset)
        looked == Lookup(evs, asset)
        asset_events == looked[key]
        l == ReduceLoop(ReduceLocals(amount), asset_events.acquisitions, 0)
    IN  IF amount = ZERO
        THEN [events |-> evs, ret |-> TRUE, logs |-> <<>>]
        ELSE IF Len(asset_events.acquisitions) = 0
        THEN [events |-> looked, ret |-> FALSE, logs |-> <<>>]
        ELSE IF l.remaining_amount_from_last_buy = NO_LAST_BUY /\ l.remaining_amount # ZERO
        THEN [events |-> [looked EXCEPT ![key] = ReduceBookkeeping(asset_events, l)],
              ret |-> FALSE,
              logs |-> <<[level |-> "critical"]>>]
        ELSE [events |-> [looked EXCEPT ![key] = ReduceBookkeeping(asset_events, l)],
              ret |-> TRUE,
              logs |-> <<>>]

----------------------------------------------------------------------------
(* History kept for the balance property: per ledger, the amounts acquired  *)
(* minus the amounts spent and reduced since the last reset.  complete      *)
(* turns false, and the balances are no longer kept, once a spend or a      *)
(* reduction was not satisfied.                                             *)

Ledgers == {LedgerKey(a) : a \in Assets}

NewBook == [complete |-> TRUE, balance |-> [k \in Ledgers |-> 0]]

Acquired(bk, asset, amount) ==
    IF bk.complete
    THEN [bk EXCEPT !.balance[LedgerKey(asset)] = @ + amount]
    ELSE bk

Disposed(bk, asset, amount, satisfied) ==
    IF bk.complete /\ satisfied
    THEN [bk EXCEPT !.balance[LedgerKey(asset)] = @ - amount]
    ELSE [complete |-> FALSE, balance |-> [k \in Ledgers |-> 0]]

----------------------------------------------------------------------------
(* The calculator's methods as steps on its state.  w is the state a method *)
(* body works on: the ledgers, the lot identities and the history.          *)

World == [events |-> _events, next_id |-> next_id, obtained |-> obtained,
          book |-> book, msgs |-> <<>>, logs |-> <<>>]

Returns(w, c, r) ==
    /\ _events' = w.events
    /\ next_id' = w.next_id
    /\ obtained' = w.obtained
    /\ book' = w.book
    /\ msgs' = w.msgs
    /\ logs' = w.logs
    /\ call' = c
    /\ ret' = r
    /\ UNCHANGED taxfree_after_period

\* obtain_asset putting the acquisition before the pending ones
obtain_asset_at_head(w, asset, amount, timestamp, rate) ==
    LET key == LedgerKey(asset)
        looked == Lookup(w.events, asset)
        asset_event == AssetAcquisitionEvent(w.next_id, amount, timestamp, rate)
    IN  [w EXCEPT
            !.events = [looked EXCEPT ![key].acquisitions = <<asset_event>> \o @],
            !.next_id = @ + 1,
            !.obtained = Append(@, key),
            !.book = Acquired(@, asset, amount)]

\* obtain_asset(event), the event given by its asset, taxable_amount, timestamp and price
obtain_asset(w, asset, amount, timestamp, rate) ==
    LET key == LedgerKey(asset)
        looked == Lookup(w.events, asset)
        asset_event == AssetAcquisitionEvent(w.next_id, amount, timestamp, rate)
    IN  [w EXCEPT
            !.events = [looked EXCEPT ![key].acquisitions = Append(@, asset_event)],
            !.next_id = @ + 1,
            !.obtained = Append(@, key),
            !.book = Acquired(@, asset, amount)]

\* a call of reduce_asset_amount inside a method: the state after it
reduce(w, asset, amount, timestamp) ==
    LET r == reduce_asset_amount(w.events, asset, amount, timestamp)
    IN  [w EXCEPT
            !.events = r.events,
            !.logs = @ \o r.logs,
            !.book = Disposed(@, asset, amount, r.ret)]

\* a call of calculate_spend_cost_basis inside a method: the state after it
calculate(w, period, spending_amount, spending_asset, timestamp) ==
    LET r == calculate_spend_cost_basis(w.events, period, spending_amount,
                                        spending_asset, timestamp)
    IN  [w EXCEPT
            !.events = r.events,
            !.msgs = @ \o r.msgs,
            !.book = Disposed(@, spending_asset, spending_amount, r.info.is_complete)]

\* prefork_acquisitions counting the second of the fork as before the fork
prefork_acquisitions_at_fork(asset, timestamp) ==
    IF asset = A_ETH /\ timestamp <= ETH_DAO_FORK_TS THEN <<A_ETC>>
    ELSE IF asset = A_BTC /\ timestamp <= BTC_BCH_FORK_TS THEN <<A_BCH, A_BSV>>
    ELSE IF asset = A_BCH /\ timestamp <= BCH_BSV_FORK_TS THEN <<A_BSV>>
    ELSE <<>>

\* the descendants of handle_prefork_asset_acquisitions, in its order
prefork_acquisitions(asset, timestamp) ==
    IF asset = A_ETH /\ timestamp < ETH_DAO_FORK_TS THEN <<A_ETC>>
    ELSE IF asset = A_BTC /\ timestamp < BTC_BCH_FORK_TS THEN <<A_BCH, A_BSV>>
    ELSE IF asset = A_BCH /\ timestamp < BCH_BSV_FORK_TS THEN <<A_BSV>>
    ELSE <<>>

RECURSIVE obtain_each(_, _, _, _, _)
obtain_each(w, acquisitions, amount, timestamp, price) ==
    IF acquisitions = <<>> THEN w
    ELSE obtain_each(obtain_asset(w, Head(acquisitions), amount, timestamp, price),
                     Tail(acquisitions), amount, timestamp, price)

\* prefork_spends without the reduction of BSV for a spend of BTC
prefork_spends_bch_only(w, asset, amount, timestamp) ==
    LET w1 == IF asset = A_ETH /\ timestamp < ETH_DAO_FORK_TS
              THEN reduce(w, A_ETC, amount, timestamp) ELSE w
        w2 == IF asset = A_BTC /\ timestamp < BTC_BCH_FORK_TS
              THEN reduce(w1, A_BCH, amount, timestamp)
              ELSE w1
    IN  IF asset = A_BCH /\ timestamp < BCH_BSV_FORK_TS
        THEN reduce(w2, A_BSV, amount, timestamp) ELSE w2

\* the three ifs of handle_prefork_asset_spends, one after the other
prefork_spends(w, asset, amount, timestamp) ==
    LET w1 == IF asset = A_ETH /\ timestamp < ETH_DAO_FORK_TS
              THEN reduce(w, A_ETC, amount, timestamp) ELSE w
        w2 == IF asset = A_BTC /\ timestamp < BTC_BCH_FORK_TS
              THEN reduce(reduce(w1, A_BCH, amount, timestamp), A_BSV, amount, timestamp)
              ELSE w1
    IN  IF asset = A_BCH /\ timestamp < BCH_BSV_FORK_TS
        THEN reduce(w2, A_BSV, amount, timestamp) ELSE w2

\* the events handle_prefork_asset_acquisitions creates, obtains and returns
prefork_events(acquisitions, location, timestamp, amount, price) ==
    [i \in 1 .. Len(acquisitions) |->
        [asset |-> acquisitions[i], taxable_amount |-> amount,
         price |-> price, timestamp |-> timestamp, location |-> location]]

\* handle_prefork_asset_acquisitions: the state after it and the list returned
handle_prefork_asset_acquisitions(w, location, timestamp, asset, amount, price) ==
    LET acquisitions == prefork_acquisitions(asset, timestamp)
    IN  [w |-> obtain_each(w, acquisitions, amount, timestamp, price),
         ret |-> [type |-> "events",
                  events |-> prefork_events(acquisitions, location, timestamp,
                                            amount, price)]]

\* record_spend with one list of spends shared by all the ledgers
record_spend_shared(w, asset, event) ==
    LET looked == Lookup(w.events, asset)
    IN  [w EXCEPT !.events =
            [k \in DOMAIN looked |-> [looked[k] EXCEPT !.spends = Append(@, event)]]]

\* record_spend putting the event before the spends recorded earlier
record_spend_first(w, asset, event) ==
    [w EXCEPT !.events =
        [Lookup(w.events, asset) EXCEPT ![LedgerKey(asset)].spends = <<event>> \o @]]

\* asset_events = self.get_events(asset); asset_events.spends.append(event)
record_spend(w, asset, event) ==
    [w EXCEPT !.events =
        [Lookup(w.events, asset) EXCEPT ![LedgerKey(asset)].spends = Append(@, event)]]

\* counts_cost_basis with or where the code has and
counts_cost_basis_either(asset, taxable_spend) == ~is_fiat(asset) \/ taxable_spend

\* the test spend_asset dispatches on
counts_cost_basis(asset, taxable_spend) == ~is_fiat(asset) /\ taxable_spend

\* spend_asset: the state after it and the Optional[CostBasisInfo] returned
spend_asset(w, period, location, timestamp, asset, amount, rate, taxable_spend) ==
    LET event == AssetSpendEvent(timestamp, location, amount, rate)
        w1 == record_spend(w, asset, event)
    IN  IF counts_cost_basis(asset, taxable_spend)
        THEN [w |-> calculate(w1, period, amount, asset, timestamp),
              ret |-> calculate_spend_cost_basis(w1.events, period, amount,
                                                 asset, timestamp).info]
        ELSE [w |-> reduce(w1, asset, amount, timestamp), ret |-> None]

FVal(value) == [type |-> "FVal", value |-> value]

\* get_calculated_asset_amount answering 0 where the code answers None
get_calculated_asset_amount_zero(evs, asset) ==
    LET asset_events == get_events(evs, asset)
    IN  [events |-> Lookup(evs, asset),
         ret |-> FVal(SumRemaining(asset_events.acquisitions))]

\* get_calculated_asset_amount: the ledgers after the call (the lookup creates
\* the ledger of an asset not seen before) and the Optional[FVal] returned
get_calculated_asset_amount(evs, asset) ==
    LET asset_events == get_events(evs, asset)
    IN  [events |-> Lookup(evs, asset),
         ret |-> IF Len(asset_events.acquisitions) = 0
                 THEN None
                 ELSE FVal(SumRemaining(asset_events.acquisitions))]

RECURSIVE SpendCount(_, _)
SpendCount(evs, keys) ==
    IF keys = {} THEN 0
    ELSE LET k == CHOOSE x \in keys : TRUE
         IN  Len(evs[k].spends) + SpendCount(evs, keys \ {k})

----------------------------------------------------------------------------
(* Actions *)

\* __init__: reset(self.settings), with the settings found in the database
Init(env) ==
    /\ _events = [k \in {} |-> CostBasisEvents]
    /\ taxfree_after_period \in env.periods
    /\ next_id = 1
    /\ obtained = <<>>
    /\ book = NewBook
    /\ call = "__init__"
    /\ ret = None
    /\ msgs = <<>>
    /\ logs = <<>>

Reset(settings) ==
    /\ _events' = [k \in {} |-> CostBasisEvents]
    /\ taxfree_after_period' = settings
    /\ next_id' = 1
    /\ obtained' = <<>>
    /\ book' = NewBook
    /\ call' = "reset"
    /\ ret' = None
    /\ msgs' = <<>>
    /\ logs' = <<>>

ObtainAsset(asset, amount, timestamp, rate, max_lots) ==
    /\ next_id <= max_lots
    /\ Returns(obtain_asset(World, asset, amount, timestamp, rate),
               "obtain_asset",
               None)

SpendAsset(location, timestamp, asset, amount, rate, taxable_spend, max_spends) ==
    /\ SpendCount(_events, DOMAIN _events) < max_spends
    /\ LET r == spend_asset(World, taxfree_after_period, location, timestamp, asset,
                            amount, rate, taxable_spend)
       IN  Returns(r.w, "spend_asset", r.ret)

CalculateSpendCostBasis(spending_amount, spending_asset, timestamp) ==
    Returns(calculate(World, taxfree_after_period, spending_amount, spending_asset, timestamp),
            "calculate_spend_cost_basis",
            calculate_spend_cost_basis(_events, taxfree_after_period, spending_amount,
                                       spending_asset, timestamp).info)

ReduceAssetAmount(asset, amount, timestamp) ==
    Returns(reduce(World, asset, amount, timestamp),
            "reduce_asset_amount",
            Bool(reduce_asset_amount(_events, asset, amount, timestamp).ret))

HandlePreforkAssetAcquisitions(location, timestamp, asset, amount, price, max_lots) ==
    LET r == handle_prefork_asset_acquisitions(World, location, timestamp, asset,
                                               amount, price)
    IN  /\ next_id + Len(r.ret.events) <= max_lots + 1
        /\ Returns(r.w, "handle_prefork_asset_acquisitions", r.ret)

HandlePreforkAssetSpends(asset, amount, timestamp) ==
    Returns(prefork_spends(World, asset, amount, timestamp),
            "handle_prefork_asset_spends",
            None)

GetCalculatedAssetAmount(asset) ==
    LET r == get_calculated_asset_amount(_events, asset)
    IN  Returns([World EXCEPT !.events = r.events],
                "get_calculated_asset_amount",
                r.ret)

----------------------------------------------------------------------------
(* The accounting pipeline that drives the calculator: which assets it      *)
(* feeds, at which times and prices, and how many events.                   *)

Obtains(env) ==
    \E asset \in env.assets, amount \in LotAmounts, timestamp \in env.lot_times,
       rate \in env.rates :
        ObtainAsset(asset, amount, timestamp, rate, env.max_lots)

Spends(env) ==
    \E location \in Locations, timestamp \in env.times, asset \in env.assets,
       amount \in SpendAmounts, rate \in env.rates, taxable_spend \in BOOLEAN :
        SpendAsset(location, timestamp, asset, amount, rate, taxable_spend, env.max_spends)

Calculates(env) ==
    \E amount \in SpendAmounts, asset \in env.assets, timestamp \in env.times :
        CalculateSpendCostBasis(amount, asset, timestamp)

Reduces(env) ==
    \E asset \in env.assets, amount \in SpendAmounts, timestamp \in env.times :
        ReduceAssetAmount(asset, amount, timestamp)

PreforkAcquisitions(env) ==
    \E location \in Locations, timestamp \in env.fork_times, asset \in env.assets,
       amount \in LotAmounts, price \in env.rates :
        HandlePreforkAssetAcquisitions(location, timestamp, asset, amount, price,
                                       env.max_lots)

PreforkSpends(env) ==
    \E asset \in env.assets, amount \in SpendAmounts, timestamp \in env.fork_times :
        HandlePreforkAssetSpends(asset, amount, timestamp)

Amounts(env) == \E asset \in env.assets : GetCalculatedAssetAmount(asset)

Resets(env) == \E settings \in env.periods : Reset(settings)

\* every method, on ETH with its alias WETH and its fork ETC, and on a fiat
\* currency; events dated before the DAO fork, fork handling also at the fork
Env == [assets |-> {A_ETH, A_WETH, A_ETC, A_EUR},
        times |-> {ETH_DAO_FORK_TS - 1}, lot_times |-> {ETH_DAO_FORK_TS - 1},
        fork_times |-> EarlyTimestamps,
        rates |-> {1}, periods |-> {{}}, max_lots |-> MaxLots, max_spends |-> MaxSpends]

Next ==
    \/ Resets(Env)
    \/ Obtains(Env)
    \/ Spends(Env)
    \/ Calculates(Env)
    \/ Reduces(Env)
    \/ PreforkAcquisitions(Env)
    \/ PreforkSpends(Env)
    \/ Amounts(Env)

Spec == Init(Env) /\ [][Next]_vars

\* one shared ledger (ETH and WETH), deep enough for three pending acquisitions
FIFOEnv == [assets |-> FIFOAssets, times |-> Timestamps, lot_times |-> EarlyTimestamps,
            fork_times |-> {},
            rates |-> Rates, periods |-> Periods, max_lots |-> MaxFIFOLots,
            max_spends |-> 0]

NextFIFO ==
    \/ Resets(FIFOEnv)
    \/ Obtains(FIFOEnv)
    \/ Calculates(FIFOEnv)
    \/ Reduces(FIFOEnv)

SpecFIFO == Init(FIFOEnv) /\ [][NextFIFO]_vars

\* reductions and balance queries on two ledgers, one of them reached by
\* reductions before anything was acquired of it
ReduceEnv == [assets |-> {A_ETH, A_ETC},
              times |-> {ETH_DAO_FORK_TS - 1}, lot_times |-> {ETH_DAO_FORK_TS - 1},
              fork_times |-> {},
              rates |-> {1}, periods |-> {{}}, max_lots |-> MaxFIFOLots, max_spends |-> 0]

NextReduce ==
    \/ Resets(ReduceEnv)
    \/ Obtains(ReduceEnv)
    \/ Reduces(ReduceEnv)
    \/ Amounts(ReduceEnv)

SpecReduce == Init(ReduceEnv) /\ [][NextReduce]_vars

\* several spends of a crypto asset and of a fiat currency, taxable and not
SpendEnv == [assets |-> {A_ETH, A_EUR},
             times |-> {ETH_DAO_FORK_TS - 1}, lot_times |-> {ETH_DAO_FORK_TS - 1},
             fork_times |-> {},
             rates |-> {1}, periods |-> {{}}, max_lots |-> MaxLots,
             max_spends |-> MaxSpendRecords]

NextSpend ==
    \/ Resets(SpendEnv)
    \/ Obtains(SpendEnv)
    \/ Spends(SpendEnv)

SpecSpend == Init(SpendEnv) /\ [][NextSpend]_vars

\* BTC and its forks BCH and BSV, handled around both fork times
ForkEnv == [assets |-> {A_BTC, A_BCH, A_BSV},
            times |-> {}, lot_times |-> {BTC_BCH_FORK_TS - 1},
            fork_times |-> BitcoinForkTimestamps,
            rates |-> {1}, periods |-> {{}}, max_lots |-> MaxFIFOLots, max_spends |-> 0]

NextFork ==
    \/ Resets(ForkEnv)
    \/ Obtains(ForkEnv)
    \/ PreforkAcquisitions(ForkEnv)
    \/ PreforkSpends(ForkEnv)

SpecFork == Init(ForkEnv) /\ [][NextFork]_vars

\* everything acquired as WETH, everything spent, reduced and matched as ETH
WrapEnv == [assets |-> {A_WETH},
            times |-> {ETH_DAO_FORK_TS - 1}, lot_times |-> {ETH_DAO_FORK_TS - 1},
            fork_times |-> {},
            rates |-> {1}, periods |-> {{}}, max_lots |-> MaxFIFOLots,
            max_spends |-> MaxSpends]

UnwrapEnv == [WrapEnv EXCEPT !.assets = {A_ETH}]

NextAlias ==
    \/ Resets(WrapEnv)
    \/ Obtains(WrapEnv)
    \/ Amounts(WrapEnv)
    \/ Spends(UnwrapEnv)
    \/ Calculates(UnwrapEnv)
    \/ Reduces(UnwrapEnv)

SpecAlias == Init(WrapEnv) /\ [][NextAlias]_vars

----------------------------------------------------------------------------
(* Properties of calculate_spend_cost_basis.  They are stated of the call   *)
(* made in any reachable state with any arguments: r is what the call       *)
(* returns and leaves behind, compared with the state it is made in.        *)

Pending(evs, asset) == get_events(evs, asset).acquisitions
Used(evs, asset)    == get_events(evs, asset).used_acquisitions

IdsOf(seq) == [i \in 1 .. Len(seq) |-> seq[i].id]

SpendOutcome(amount, asset, timestamp) ==
    calculate_spend_cost_basis(_events, taxfree_after_period, amount, asset, timestamp)

\* the holding period of the acquisition is over at the time of the spend
HeldLongEnough(acquisition_event, timestamp) ==
    /\ taxfree_after_period # {}
    /\ \A p \in taxfree_after_period : acquisition_event.timestamp + p < timestamp

\* the pending acquisition a matched entry refers to
LotOf(pending, entry) == CHOOSE a \in {pending[i] : i \in 1 .. Len(pending)} : a.id = entry.event

\* the amount (or the cost, at the acquisition's rate) of the matched entries
\* whose acquisition is, or is not, held long enough
RECURSIVE Attributed(_, _, _, _, _)
Attributed(matched, pending, timestamp, taxfree, as_cost) ==
    IF matched = <<>> THEN 0
    ELSE LET entry == Head(matched)
             lot == LotOf(pending, entry)
             value == IF as_cost THEN lot.rate * entry.amount ELSE entry.amount
         IN  (IF HeldLongEnough(lot, timestamp) = taxfree THEN value ELSE 0)
             + Attributed(Tail(matched), pending, timestamp, taxfree, as_cost)

\* C1: a spend smaller than the oldest pending acquisition is matched to that
\* acquisition alone, for the amount spent; the acquisition stays the head of
\* the pending ones with its remaining amount reduced by exactly the amount
\* spent, the other pending acquisitions are unchanged and nothing is added
\* to the used ones.
C1_FifoPartialConsumption ==
    \A asset \in Assets, s \in SpendAmounts, t \in Timestamps :
        LET pending == Pending(_events, asset)
            r == SpendOutcome(s, asset, t)
        IN  (pending # <<>> /\ 0 < s /\ s < pending[1].remaining_amount) =>
                /\ r.info.matched_acquisitions = <<[amount |-> s, event |-> pending[1].id]>>
                /\ Pending(r.events, asset) =
                       [pending EXCEPT ![1].remaining_amount = @ - s]
                /\ Used(r.events, asset) = Used(_events, asset)

C1_Witness ==
    /\ call = "calculate_spend_cost_basis"
    /\ ret.is_complete
    /\ Len(ret.matched_acquisitions) = 1
    /\ Len(Pending(_events, A_ETH)) >= 2
    /\ LET head == Pending(_events, A_ETH)[1]
       IN  /\ ret.matched_acquisitions[1].event = head.id
           /\ ret.matched_acquisitions[1].amount > 0
           /\ head.remaining_amount = head.amount - ret.matched_acquisitions[1].amount
           /\ head.remaining_amount > 0

\* C2: with at least three pending acquisitions, a spend of exactly the
\* remaining amounts of the two oldest removes both from the pending ones,
\* appends both, used up, to the used ones, is complete, and leaves the third
\* acquisition untouched at the head of the pending ones.
C2_FullLotExhaustion ==
    \A asset \in Assets, s \in SpendAmounts, t \in Timestamps :
        LET pending == Pending(_events, asset)
            used == Used(_events, asset)
            r == SpendOutcome(s, asset, t)
        IN  (Len(pending) >= 3
             /\ s = pending[1].remaining_amount + pending[2].remaining_amount) =>
                /\ r.info.is_complete
                /\ Pending(r.events, asset) = SubSeq(pending, 3, Len(pending))
                /\ Used(r.events, asset) =
                       used \o <<[pending[1] EXCEPT !.remaining_amount = 0],
                                 [pending[2] EXCEPT !.remaining_amount = 0]>>
                /\ r.info.matched_acquisitions[1] =
                       [amount |-> pending[1].remaining_amount, event |-> pending[1].id]
                /\ r.info.matched_acquisitions[2] =
                       [amount |-> pending[2].remaining_amount, event |-> pending[2].id]

C2_Witness ==
    /\ call = "calculate_spend_cost_basis"
    /\ ret.is_complete
    /\ next_id = 4
    /\ IdsOf(Used(_events, A_ETH)) = <<1, 2>>
    /\ IdsOf(Pending(_events, A_ETH)) = <<3>>
    /\ Pending(_events, A_ETH)[1].remaining_amount = Pending(_events, A_ETH)[1].amount
    /\ Len(ret.matched_acquisitions) >= 2
    /\ ret.matched_acquisitions[1].event = 1
    /\ ret.matched_acquisitions[2].event = 2
    /\ ret.matched_acquisitions[2].amount > 0

\* C3: what a spend at time t takes from an acquisition made at t0 counts as
\* tax-free, amount and cost, exactly when a holding period P is configured
\* and t0 + P < t; otherwise it counts as taxable.
C3_TaxFreeClassification ==
    \A asset \in Assets, s \in SpendAmounts, t \in Timestamps :
        LET pending == Pending(_events, asset)
            r == SpendOutcome(s, asset, t)
            l == SpendLoop(SpendLocals(s, pending), 0, t, taxfree_after_period)
            matched == r.info.matched_acquisitions
        IN  pending # <<>> =>
                /\ r.info.taxfree_bought_cost = Attributed(matched, pending, t, TRUE, TRUE)
                /\ r.info.taxable_bought_cost = Attributed(matched, pending, t, FALSE, TRUE)
                /\ l.taxfree_amount = Attributed(matched, pending, t, TRUE, FALSE)
                /\ l.taxable_amount = Attributed(matched, pending, t, FALSE, FALSE)
                /\ r.info.is_complete => r.info.taxable_amount = l.taxable_amount

\* a spend one second after the holding period of everything it is matched to
C3_Witness ==
    /\ call = "calculate_spend_cost_basis"
    /\ taxfree_after_period = {Period}
    /\ ret.is_complete
    /\ ret.matched_acquisitions # <<>>
    /\ ret.taxfree_bought_cost > 0
    /\ ret.taxable_bought_cost = 0
    /\ ret.taxable_amount = 0

\* C4: a spend of an asset with no pending acquisition is incomplete, wholly
\* taxable, without cost and without matched acquisitions; the missing
\* acquisition is reported, and the pending and used acquisitions of the
\* asset are left as they were.
C4_MissingAcquisition ==
    \A asset \in Assets, s \in SpendAmounts, t \in Timestamps :
        LET r == SpendOutcome(s, asset, t)
        IN  Pending(_events, asset) = <<>> =>
                /\ r.info.is_complete = FALSE
                /\ r.info.taxable_amount = s
                /\ r.info.taxable_bought_cost = 0
                /\ r.info.taxfree_bought_cost = 0
                /\ r.info.matched_acquisitions = <<>>
                /\ r.msgs = <<[form |-> "no_acquisition"]>>
                /\ Pending(r.events, asset) = <<>>
                /\ Used(r.events, asset) = Used(_events, asset)

\* every acquisition used up, and a further spend of more than nothing
C4_Witness ==
    /\ call = "calculate_spend_cost_basis"
    /\ ret.is_complete = FALSE
    /\ ret.taxable_amount > 0
    /\ ret.matched_acquisitions = <<>>
    /\ msgs = <<[form |-> "no_acquisition"]>>
    /\ Pending(_events, A_ETH) = <<>>
    /\ Used(_events, A_ETH) # <<>>

\* C5: a spend of more than the pending acquisitions hold together is
\* incomplete; it is matched to every pending acquisition for its whole
\* remaining amount; its taxable amount is the amount spent minus the amount
\* found tax-free; afterwards no acquisition is pending and all those that
\* were are among the used ones.
C5_PartialMissingAcquisition ==
    \A asset \in Assets, s \in SpendAmounts, t \in Timestamps :
        LET pending == Pending(_events, asset)
            r == SpendOutcome(s, asset, t)
            matched == r.info.matched_acquisitions
        IN  (pending # <<>> /\ SumRemaining(pending) < s) =>
                /\ r.info.is_complete = FALSE
                /\ matched = [i \in 1 .. Len(pending) |->
                                 [amount |-> pending[i].remaining_amount,
                                  event |-> pending[i].id]]
                /\ SumMatched(matched) = SumRemaining(pending)
                /\ r.info.taxable_amount =
                       s - Attributed(matched, pending, t, TRUE, FALSE)
                /\ Pending(r.events, asset) = <<>>
                /\ IdsOf(Used(r.events, asset)) =
                       IdsOf(Used(_events, asset)) \o IdsOf(pending)

\* two acquisitions, one of them past its holding period, and a spend of more
C5_Witness ==
    /\ call = "calculate_spend_cost_basis"
    /\ ret.is_complete = FALSE
    /\ Len(ret.matched_acquisitions) = 2
    /\ ret.taxfree_bought_cost > 0
    /\ ret.taxable_bought_cost > 0
    /\ ret.taxable_amount > 0
    /\ Pending(_events, A_ETH) = <<>>
    /\ Len(Used(_events, A_ETH)) >= 2

\* C6: the call returns a result for every amount spent, in every state; the
\* result is incomplete exactly when no acquisition is pending or the
\* pending ones hold less than the amount spent.
C6_GracefulDegradation ==
    \A asset \in Assets, s \in SpendAmounts, t \in Timestamps :
        LET pending == Pending(_events, asset)
            r == SpendOutcome(s, asset, t)
        IN  /\ r.info.type = "CostBasisInfo"
            /\ r.info.is_complete \in BOOLEAN
            /\ r.info.is_complete = FALSE <=>
                   (pending = <<>> \/ SumRemaining(pending) < s)

\* a complete spend of exactly what was pending
C6_Witness ==
    /\ call = "calculate_spend_cost_basis"
    /\ ret.is_complete
    /\ SumMatched(ret.matched_acquisitions) > 0
    /\ Pending(_events, A_ETH) = <<>>
    /\ Len(Used(_events, A_ETH)) >= 2

\* C7: the call sends one warning when its result is incomplete and none
\* when it is complete: "no documented acquisition" when nothing was pending,
\* else "found and missing" with the matched total and the remainder.
C7_DiagnosticsMatchIncompleteness ==
    \A asset \in Assets, s \in SpendAmounts, t \in Timestamps :
        LET pending == Pending(_events, asset)
            r == SpendOutcome(s, asset, t)
        IN  /\ r.info.is_complete => r.msgs = <<>>
            /\ (~r.info.is_complete /\ pending = <<>>) =>
                   r.msgs = <<[form |-> "no_acquisition"]>>
            /\ (~r.info.is_complete /\ pending # <<>>) =>
                   r.msgs = <<[form |-> "not_enough",
                               found_amount |-> {SumMatched(r.info.matched_acquisitions)},
                               missing_amount |-> {s - SumRemaining(pending)}]>>

C7_Witness ==
    /\ call = "calculate_spend_cost_basis"
    /\ ret.is_complete = FALSE
    /\ Len(msgs) = 1
    /\ msgs[1].form = "not_enough"
    /\ msgs[1].found_amount = {SumMatched(ret.matched_acquisitions)}
    /\ msgs[1].found_amount # msgs[1].missing_amount
    /\ \E m \in msgs[1].missing_amount : m > 0

----------------------------------------------------------------------------
(* Properties of the ledgers, in every state the calculator reaches by any  *)
(* of its methods.                                                          *)

LotsOf(seq) == {seq[i] : i \in 1 .. Len(seq)}

\* C8: every acquisition in a ledger, pending or used, has a remaining
\* amount between zero and its amount, and no pending one has none left.
C8_LotInvariant ==
    \A k \in DOMAIN _events :
        /\ \A a \in LotsOf(_events[k].acquisitions) :
               0 < a.remaining_amount /\ a.remaining_amount <= a.amount
        /\ \A a \in LotsOf(_events[k].used_acquisitions) :
               0 <= a.remaining_amount /\ a.remaining_amount <= a.amount

\* a spend that used up one acquisition and part of the next
C8_Witness ==
    /\ call \in {"spend_asset", "calculate_spend_cost_basis"}
    /\ \E k \in DOMAIN _events :
          /\ \E a \in LotsOf(_events[k].used_acquisitions) :
                a.remaining_amount = 0 /\ a.amount > 0
          /\ \E a \in LotsOf(_events[k].acquisitions) :
                a.remaining_amount < a.amount

\* C9: as long as every spend and every reduction was satisfied, the pending
\* acquisitions of an asset hold together what was acquired of it minus what
\* was spent and reduced.
C9_BalanceInvariant ==
    book.complete =>
        \A k \in Ledgers :
            book.balance[k] =
                IF k \in DOMAIN _events THEN SumRemaining(_events[k].acquisitions) ELSE 0

\* a satisfied reduction that took part of an acquisition
C9_Witness ==
    /\ book.complete
    /\ call = "reduce_asset_amount"
    /\ ret = Bool(TRUE)
    /\ \E k \in DOMAIN _events :
          /\ _events[k].acquisitions # <<>>
          /\ _events[k].acquisitions[1].remaining_amount
                 < _events[k].acquisitions[1].amount
          /\ book.balance[k] > 0

\* C10: every acquisition obtained since the last reset is in exactly one of
\* the pending and the used acquisitions of its asset.
C10_LotLifecycle ==
    \A id \in 1 .. Len(obtained) :
        LET k == obtained[id]
        IN  /\ k \in DOMAIN _events
            /\ (id \in Ids(_events[k].acquisitions))
                   # (id \in Ids(_events[k].used_acquisitions))

----------------------------------------------------------------------------
(* Properties of reduce_asset_amount, stated like those of                  *)
(* calculate_spend_cost_basis: of the call made in any reachable state.     *)

SpendRecords(evs, asset) == get_events(evs, asset).spends

ReduceOutcome(asset, amount, timestamp) ==
    reduce_asset_amount(_events, asset, amount, timestamp)

\* post is pending with its k oldest acquisitions removed and what is left
\* of amount taken from the next one, which keeps some of its amount
ConsumedOldestFirst(pending, post, amount, k) ==
    LET left == amount - SumRemaining(SubSeq(pending, 1, k))
    IN  /\ left >= 0
        /\ Len(post) = Len(pending) - k
        /\ \A i \in 2 .. Len(post) : post[i] = pending[k + i]
        /\ Len(post) > 0 =>
               /\ left < pending[k + 1].remaining_amount
               /\ post[1] = [pending[k + 1] EXCEPT !.remaining_amount = @ - left]
        /\ Len(post) = 0 => left = 0

\* C11: a reduction by more than nothing returns true exactly when the
\* pending acquisitions of the asset hold at least the amount; it then takes
\* the amount from the oldest pending acquisitions, so that they hold
\* together exactly the amount less, and it adds neither a used acquisition
\* nor a spend record.
C11_ReduceResult ==
    \A asset \in Assets, amount \in SpendAmounts \ {0}, t \in Timestamps :
        LET pending == Pending(_events, asset)
            r == ReduceOutcome(asset, amount, t)
            post == Pending(r.events, asset)
        IN  /\ r.ret \in BOOLEAN
            /\ r.ret = (SumRemaining(pending) >= amount)
            /\ r.ret =>
                   /\ SumRemaining(post) = SumRemaining(pending) - amount
                   /\ \E k \in 0 .. Len(pending) :
                          ConsumedOldestFirst(pending, post, amount, k)
                   /\ Used(r.events, asset) = Used(_events, asset)
                   /\ SpendRecords(r.events, asset) = SpendRecords(_events, asset)

\* a satisfied reduction that removed the two oldest acquisitions and took
\* part of the third
C11_Witness ==
    /\ call = "reduce_asset_amount"
    /\ ret = Bool(TRUE)
    /\ next_id = 4
    /\ \E k \in DOMAIN _events :
          /\ obtained = <<k, k, k>>
          /\ IdsOf(_events[k].acquisitions) = <<3>>
          /\ _events[k].acquisitions[1].remaining_amount
                 < _events[k].acquisitions[1].amount

Critical(entries) == {i \in 1 .. Len(entries) : entries[i].level = "critical"}

\* C12: a call of reduce_asset_amount that returns false logs a critical
\* entry and a call that returns true logs none; either way it returns.
C12_FatalLogOnFailedReduction ==
    call = "reduce_asset_amount" =>
        /\ ret.type = "bool"
        /\ ret.value = FALSE <=> Critical(logs) # {}

\* C13: in every state and for every asset, also one without a ledger, a
\* reduction by zero returns true, logs nothing and leaves the ledgers as
\* they are: the same ledgers exist and each holds the same acquisitions,
\* used acquisitions and spends.
C13_ZeroReductionIdempotent ==
    \A asset \in Assets, t \in Timestamps :
        LET r == ReduceOutcome(asset, ZERO, t)
            w == reduce(World, asset, ZERO, t)
        IN  /\ r.ret = TRUE
            /\ r.logs = <<>>
            /\ DOMAIN r.events = DOMAIN _events
            /\ \A k \in DOMAIN _events : r.events[k] = _events[k]
            /\ w = World

\* a reduction that returned true on a calculator without any ledger, which
\* only a reduction by zero does, and left it without any ledger
C13_Witness ==
    /\ call = "reduce_asset_amount"
    /\ ret = Bool(TRUE)
    /\ DOMAIN _events = {}
    /\ logs = <<>>

----------------------------------------------------------------------------
(* Properties of spend_asset and of the spend records.                      *)

\* the ledgers evs hold the spend records of the current state, no other
SpendsKept(evs) ==
    /\ DOMAIN _events \subseteq DOMAIN evs
    /\ \A k \in DOMAIN evs :
           evs[k].spends = IF k \in DOMAIN _events THEN _events[k].spends ELSE <<>>

SpendAssetOutcome(location, timestamp, asset, amount, rate, taxable_spend) ==
    spend_asset(World, taxfree_after_period, location, timestamp, asset, amount,
                rate, taxable_spend)

\* C14: in every state, a call of spend_asset, whether taxable or not, of a
\* fiat asset or not, covered by acquisitions or not, leaves the spends of
\* the asset's ledger as they were with one record of the call's timestamp,
\* location, amount and rate appended, and the spends of every other ledger
\* as they were; a call of any other method, whatever its arguments, leaves
\* the spends of every ledger as they were.
C14_SpendRecords ==
    /\ \A location \in Locations, t \in Timestamps, asset \in Assets,
          amount \in SpendAmounts, rate \in Rates, taxable_spend \in BOOLEAN :
           LET r == SpendAssetOutcome(location, t, asset, amount, rate, taxable_spend)
               key == LedgerKey(asset)
           IN  /\ r.w.events[key].spends =
                      SpendRecords(_events, asset)
                          \o <<[timestamp |-> t, location |-> location,
                                amount |-> amount, rate |-> rate]>>
               /\ DOMAIN r.w.events = DOMAIN _events \cup {key}
               /\ \A k \in DOMAIN r.w.events \ {key} :
                      r.w.events[k].spends = _events[k].spends
    /\ \A asset \in Assets, amount \in SpendAmounts, t \in Timestamps :
           /\ SpendsKept(SpendOutcome(amount, asset, t).events)
           /\ SpendsKept(ReduceOutcome(asset, amount, t).events)
    /\ \A asset \in Assets, amount \in LotAmounts, rate \in Rates :
           /\ \A t \in Timestamps :
                  SpendsKept(obtain_asset(World, asset, amount, t, rate).events)
           /\ \A location \in Locations, t \in ForkTimestamps :
                  SpendsKept(handle_prefork_asset_acquisitions(
                                 World, location, t, asset, amount, rate).w.events)
    /\ \A asset \in Assets, amount \in SpendAmounts, t \in ForkTimestamps :
           SpendsKept(prefork_spends(World, asset, amount, t).events)
    /\ \A asset \in Assets :
           SpendsKept(get_calculated_asset_amount(_events, asset).events)

\* a second spend of ETH, of another amount than the first and of more than
\* the acquisitions cover, recorded behind the first
C14_Witness ==
    /\ call = "spend_asset"
    /\ ret.type = "CostBasisInfo"
    /\ ret.is_complete = FALSE
    /\ A_ETH \in DOMAIN _events
    /\ Len(_events[A_ETH].spends) = 2
    /\ _events[A_ETH].spends[2].amount = ret.taxable_amount
    /\ _events[A_ETH].spends[1].amount < _events[A_ETH].spends[2].amount

\* C15: spend_asset returns a CostBasisInfo exactly when the asset is not
\* fiat and the spend is taxable, and it is then the one that
\* calculate_spend_cost_basis returns for the amount, with that call's effect
\* on the acquisitions and its warnings; otherwise spend_asset returns None,
\* whether the reduction succeeds or not, and the acquisitions are those that
\* reduce_asset_amount leaves, with its log entries, no warning and no
\* acquisition added to the used ones.
C15_SpendDispatch ==
    \A location \in Locations, t \in Timestamps, asset \in Assets,
       amount \in SpendAmounts, rate \in Rates, taxable_spend \in BOOLEAN :
        LET r == SpendAssetOutcome(location, t, asset, amount, rate, taxable_spend)
            c == SpendOutcome(amount, asset, t)
            d == ReduceOutcome(asset, amount, t)
        IN  /\ r.ret.type \in {"CostBasisInfo", "None"}
            /\ r.ret.type = "CostBasisInfo" <=> (asset \notin Fiat /\ taxable_spend)
            /\ (asset \notin Fiat /\ taxable_spend) =>
                   /\ r.ret = c.info
                   /\ Pending(r.w.events, asset) = Pending(c.events, asset)
                   /\ Used(r.w.events, asset) = Used(c.events, asset)
                   /\ r.w.msgs = c.msgs
                   /\ r.w.logs = <<>>
            /\ (asset \in Fiat \/ ~taxable_spend) =>
                   /\ r.ret = None
                   /\ Pending(r.w.events, asset) = Pending(d.events, asset)
                   /\ Used(r.w.events, asset) = Used(_events, asset)
                   /\ r.w.logs = d.logs
                   /\ r.w.msgs = <<>>

\* a spend that returned nothing although its reduction ran out of
\* acquisitions, which it took from the ledger
C15_Witness ==
    /\ call = "spend_asset"
    /\ ret = None
    /\ Critical(logs) # {}
    /\ msgs = <<>>
    /\ next_id > 1
    /\ \A k \in DOMAIN _events : _events[k].acquisitions = <<>>
    /\ \E k \in DOMAIN _events : Len(_events[k].spends) = 1

----------------------------------------------------------------------------
(* Properties of the fork handlers.                                         *)

\* the assets that an asset held at a time before a fork also holds
Descendants(asset, timestamp) ==
    CASE asset = A_ETH /\ timestamp < ETH_DAO_FORK_TS -> {A_ETC}
      [] asset = A_BTC /\ timestamp < BTC_BCH_FORK_TS -> {A_BCH, A_BSV}
      [] asset = A_BCH /\ timestamp < BCH_BSV_FORK_TS -> {A_BSV}
      [] OTHER -> {}

\* C16: handle_prefork_asset_acquisitions appends to the pending
\* acquisitions of each descendant of the asset one acquisition of the
\* amount and the price given, and returns one event per descendant with
\* that asset, amount, price, timestamp and location; no other ledger
\* changes, the asset's own included, and without descendants (another
\* asset, or a time at or after the fork) the list returned is empty and the
\* ledgers are as before.
C16_ForkAcquisitions ==
    \A location \in Locations, t \in ForkTimestamps, asset \in Assets,
       amount \in LotAmounts, price \in Rates :
        LET r == handle_prefork_asset_acquisitions(World, location, t, asset,
                                                   amount, price)
            D == Descendants(asset, t)
            events == r.ret.events
        IN  /\ Len(events) = Cardinality(D)
            /\ {events[i].asset : i \in 1 .. Len(events)} = D
            /\ \A i \in 1 .. Len(events) :
                   /\ events[i].taxable_amount = amount
                   /\ events[i].price = price
                   /\ events[i].timestamp = t
                   /\ events[i].location = location
            /\ DOMAIN r.w.events = DOMAIN _events \cup D
            /\ \A d \in D :
                   /\ \E id \in next_id .. (next_id + 1) :
                          r.w.events[d].acquisitions =
                              Append(Pending(_events, d),
                                     [id |-> id, amount |-> amount,
                                      remaining_amount |-> amount,
                                      timestamp |-> t, rate |-> price])
                   /\ r.w.events[d].used_acquisitions = Used(_events, d)
                   /\ r.w.events[d].spends = SpendRecords(_events, d)
            /\ \A k \in DOMAIN r.w.events \ D : r.w.events[k] = _events[k]
            /\ asset \notin D
            /\ D = {} => (events = <<>> /\ r.w.events = _events)

\* BTC acquired before its first fork: one more acquisition of BCH and one of
\* BSV, behind an earlier one, and none of BTC
C16_Witness ==
    /\ call = "handle_prefork_asset_acquisitions"
    /\ Len(ret.events) = 2
    /\ ret.events[1].asset = A_BCH
    /\ ret.events[2].asset = A_BSV
    /\ A_BTC \notin DOMAIN _events
    /\ A_BCH \in DOMAIN _events
    /\ A_BSV \in DOMAIN _events
    /\ Len(_events[A_BSV].acquisitions) = 2
    /\ LET bch == _events[A_BCH].acquisitions
           bsv == _events[A_BSV].acquisitions
       IN  /\ bch # <<>>
           /\ bch[Len(bch)].amount = ret.events[1].taxable_amount
           /\ bsv[Len(bsv)].amount = ret.events[2].taxable_amount
           /\ bsv[Len(bsv)].remaining_amount = bsv[Len(bsv)].amount
           /\ bsv[Len(bsv)].id = bch[Len(bch)].id + 1

\* C17: handle_prefork_asset_spends does to the pending acquisitions of each
\* descendant of the asset what reduce_asset_amount does for the amount:
\* they hold the amount less when they held at least the amount, and
\* nothing when they held less; it moves nothing to the used acquisitions,
\* records no spend in any ledger and leaves every other ledger, the
\* asset's own included, as it was; without descendants it changes nothing.
C17_ForkSpends ==
    \A asset \in Assets, amount \in SpendAmounts, t \in ForkTimestamps :
        LET w == prefork_spends(World, asset, amount, t)
            D == Descendants(asset, t)
        IN  /\ \A d \in D :
                   LET pending == Pending(_events, d)
                       post == Pending(w.events, d)
                   IN  /\ post = Pending(ReduceOutcome(d, amount, t).events, d)
                       /\ SumRemaining(pending) >= amount =>
                              SumRemaining(post) = SumRemaining(pending) - amount
                       /\ SumRemaining(pending) < amount => post = <<>>
                       /\ Used(w.events, d) = Used(_events, d)
            /\ SpendsKept(w.events)
            /\ DOMAIN w.events \subseteq DOMAIN _events \cup D
            /\ \A k \in DOMAIN w.events \ D : w.events[k] = _events[k]
            /\ asset \notin D
            /\ D = {} => (w.events = _events /\ w.logs = <<>>)

\* one acquisition of BCH and one of BSV, both of them reduced in part,
\* which for BCH only a spend of BTC before its fork does
C17_Witness ==
    /\ call = "handle_prefork_asset_spends"
    /\ ret = None
    /\ next_id = 3
    /\ A_BTC \notin DOMAIN _events
    /\ A_BCH \in DOMAIN _events
    /\ A_BSV \in DOMAIN _events
    /\ \A k \in {A_BCH, A_BSV} :
           /\ Len(_events[k].acquisitions) = 1
           /\ _events[k].acquisitions[1].remaining_amount
                  < _events[k].acquisitions[1].amount
           /\ _events[k].spends = <<>>
           /\ _events[k].used_acquisitions = <<>>

----------------------------------------------------------------------------
(* Properties of the lookup of ledgers.                                     *)

\* C18: no ledger is kept for WETH, and every method that looks up a ledger
\* does with WETH what it does with ETH: it returns the same and leaves the
\* same ledgers, none of them for WETH, so that what is acquired under one
\* name is pending, matched and consumed under the other, oldest first.
C18_WrappedAssetAlias ==
    /\ A_WETH \notin DOMAIN _events
    /\ Pending(_events, A_WETH) = Pending(_events, A_ETH)
    /\ \A amount \in SpendAmounts, t \in Timestamps :
           /\ SpendOutcome(amount, A_WETH, t).events = SpendOutcome(amount, A_ETH, t).events
           /\ SpendOutcome(amount, A_WETH, t).info = SpendOutcome(amount, A_ETH, t).info
           /\ ReduceOutcome(A_WETH, amount, t) = ReduceOutcome(A_ETH, amount, t)
           /\ A_WETH \notin DOMAIN SpendOutcome(amount, A_WETH, t).events
           /\ A_WETH \notin DOMAIN ReduceOutcome(A_WETH, amount, t).events
           /\ \A location \in Locations, rate \in Rates, taxable_spend \in BOOLEAN :
                  LET weth == SpendAssetOutcome(location, t, A_WETH, amount, rate,
                                                taxable_spend)
                      eth == SpendAssetOutcome(location, t, A_ETH, amount, rate,
                                               taxable_spend)
                  IN  /\ weth.w.events = eth.w.events
                      /\ weth.ret = eth.ret
                      /\ A_WETH \notin DOMAIN weth.w.events
    /\ \A amount \in LotAmounts, t \in Timestamps, rate \in Rates :
           LET weth == obtain_asset(World, A_WETH, amount, t, rate).events
               eth == obtain_asset(World, A_ETH, amount, t, rate).events
           IN  /\ weth = eth
               /\ A_WETH \notin DOMAIN weth
               /\ weth[A_ETH].acquisitions =
                      Append(Pending(_events, A_ETH),
                             AssetAcquisitionEvent(next_id, amount, t, rate))
    /\ get_calculated_asset_amount(_events, A_WETH) =
           get_calculated_asset_amount(_events, A_ETH)
    /\ A_WETH \notin DOMAIN get_calculated_asset_amount(_events, A_WETH).events

\* three acquisitions of WETH, then a calculation for ETH matched to the
\* oldest of them, which is used up, and to part of the second
C18_Witness ==
    /\ call = "calculate_spend_cost_basis"
    /\ ret.is_complete
    /\ Len(ret.matched_acquisitions) = 2
    /\ ret.matched_acquisitions[1].event = 1
    /\ ret.matched_acquisitions[2].event = 2
    /\ ret.matched_acquisitions[2].amount > 0
    /\ DOMAIN _events = {A_ETH}
    /\ IdsOf(_events[A_ETH].used_acquisitions) = <<1>>
    /\ IdsOf(_events[A_ETH].acquisitions) = <<2, 3>>
    /\ _events[A_ETH].acquisitions[1].remaining_amount > 0

----------------------------------------------------------------------------
(* Properties of get_calculated_asset_amount and of the pending queue.      *)

\* C19: get_calculated_asset_amount returns None exactly when the asset has
\* no pending acquisition, whether none was made or all were consumed, and
\* otherwise the sum of the remaining amounts of the pending ones, which is
\* more than nothing; every ledger keeps its acquisitions, used acquisitions
\* and spends, and a ledger the lookup creates is empty.
C19_BalanceQuery ==
    /\ \A asset \in Assets :
           LET r == get_calculated_asset_amount(_events, asset)
               pending == Pending(_events, asset)
           IN  /\ r.ret = None <=> pending = <<>>
               /\ pending # <<>> =>
                      /\ r.ret = [type |-> "FVal", value |-> SumRemaining(pending)]
                      /\ r.ret.value > 0
               /\ \A k \in DOMAIN _events :
                      k \in DOMAIN r.events /\ r.events[k] = _events[k]
               /\ \A k \in DOMAIN r.events \ DOMAIN _events :
                      r.events[k] = CostBasisEvents
    /\ call = "get_calculated_asset_amount" =>
           \E k \in DOMAIN _events :
               IF _events[k].acquisitions = <<>>
               THEN ret = None
               ELSE ret = [type |-> "FVal",
                           value |-> SumRemaining(_events[k].acquisitions)]

\* the balance of two pending acquisitions, the older of them consumed in
\* part, after a still older one was consumed whole
C19_Witness ==
    /\ call = "get_calculated_asset_amount"
    /\ ret.type = "FVal"
    /\ \E k \in DOMAIN _events :
          LET pending == _events[k].acquisitions
          IN  /\ IdsOf(pending) = <<2, 3>>
              /\ pending[1].remaining_amount < pending[1].amount
              /\ ret.value = pending[1].remaining_amount + pending[2].remaining_amount
              /\ \A j \in DOMAIN _events \ {k} : _events[j].acquisitions = <<>>

\* the acquisitions appended to ledger k since the last reset, of the first
\* n obtained, in the order they were obtained in
RECURSIVE ObtainedFor(_, _)
ObtainedFor(k, n) ==
    IF n = 0 THEN <<>>
    ELSE ObtainedFor(k, n - 1) \o (IF obtained[n] = k THEN <<n>> ELSE <<>>)

\* C20: the pending acquisitions of a ledger are, in the order they were
\* obtained in, the last ones of all those obtained for it since the last
\* reset, and each of them but the oldest has its whole amount remaining.
C20_PendingQueueShape ==
    \A k \in DOMAIN _events :
        LET all == ObtainedFor(k, Len(obtained))
            pending == _events[k].acquisitions
        IN  /\ Len(pending) <= Len(all)
            /\ IdsOf(pending) = SubSeq(all, Len(all) - Len(pending) + 1, Len(all))
            /\ \A i \in 2 .. Len(pending) :
                   pending[i].remaining_amount = pending[i].amount

\* three acquisitions; the oldest is consumed, the second in part, the
\* third not at all
C20_Witness ==
    /\ call \in {"calculate_spend_cost_basis", "reduce_asset_amount"}
    /\ obtained = <<A_ETH, A_ETH, A_ETH>>
    /\ A_ETH \in DOMAIN _events
    /\ IdsOf(_events[A_ETH].acquisitions) = <<2, 3>>
    /\ _events[A_ETH].acquisitions[1].remaining_amount
           < _events[A_ETH].acquisitions[1].amount
    /\ _events[A_ETH].acquisitions[2].remaining_amount
           = _events[A_ETH].acquisitions[2].amount

----------------------------------------------------------------------------
(* Further properties of the matched acquisitions, of a reduction that is   *)
(* not satisfied, and of the ledgers of the assets a call does not name.    *)

\* C21: for a spend of more than nothing, every matched acquisition is
\* matched for more than nothing, no acquisition is matched twice, the
\* amounts matched add up to the smaller of the amount spent and the amount
\* pending, and a spend of exactly what the k oldest pending acquisitions
\* hold is matched to those k and to no other.
C21_MatchedAmounts ==
    \A asset \in Assets, s \in SpendAmounts \ {0}, t \in Timestamps :
        LET pending == Pending(_events, asset)
            matched == SpendOutcome(s, asset, t).info.matched_acquisitions
        IN  /\ \A i \in 1 .. Len(matched) : matched[i].amount > 0
            /\ \A i, j \in 1 .. Len(matched) :
                   matched[i].event = matched[j].event => i = j
            /\ SumMatched(matched) = Min(s, SumRemaining(pending))
            /\ \A k \in 1 .. Len(pending) :
                   s = SumRemaining(SubSeq(pending, 1, k)) =>
                       /\ Len(matched) = k
                       /\ \A i \in 1 .. k : matched[i].event = pending[i].id

\* C22: a reduction by more than the pending acquisitions of the asset hold,
\* when some are pending, returns false and leaves none of them pending:
\* they are neither restored nor moved to the used ones, and the balance
\* queried afterwards is None.
C22_FailedReductionNotRolledBack ==
    \A asset \in Assets, amount \in SpendAmounts \ {0}, t \in Timestamps :
        LET pending == Pending(_events, asset)
            r == ReduceOutcome(asset, amount, t)
        IN  (pending # <<>> /\ SumRemaining(pending) < amount) =>
                /\ r.ret = FALSE
                /\ Pending(r.events, asset) = <<>>
                /\ Pending(r.events, asset) # pending
                /\ Used(r.events, asset) = Used(_events, asset)
                /\ get_calculated_asset_amount(r.events, asset).ret = None

\* a reduction that ran out of acquisitions, which is the one that logs, and
\* left none of the two that were obtained
C22_Witness ==
    /\ call = "reduce_asset_amount"
    /\ ret = Bool(FALSE)
    /\ Critical(logs) # {}
    /\ next_id = 3
    /\ \E k \in DOMAIN _events :
          /\ obtained = <<k, k>>
          /\ _events[k].acquisitions = <<>>
          /\ _events[k].used_acquisitions = <<>>
    /\ \A asset \in Assets : get_calculated_asset_amount(_events, asset).ret = None

\* the ledgers evs are those of the current state but for the ledger of the
\* asset, which may be another or a new one
OnlyLedgerOf(asset, evs) ==
    LET own == IF asset = A_WETH THEN A_ETH ELSE asset
    IN  /\ DOMAIN evs \subseteq DOMAIN _events \cup {own}
        /\ \A k \in DOMAIN _events :
               /\ k \in DOMAIN evs
               /\ k # own => evs[k] = _events[k]

\* C23: obtain_asset, spend_asset, calculate_spend_cost_basis and
\* reduce_asset_amount, and the balance query, called for an asset in any
\* state and with any arguments, leave the acquisitions, the used
\* acquisitions and the spends of every other asset's ledger as they were;
\* the ledger they may change is that of the asset, or of ETH for WETH.
C23_PerAssetIsolation ==
    \A asset \in Assets :
        /\ \A amount \in SpendAmounts, t \in Timestamps :
               /\ OnlyLedgerOf(asset, SpendOutcome(amount, asset, t).events)
               /\ OnlyLedgerOf(asset, ReduceOutcome(asset, amount, t).events)
               /\ \A location \in Locations, rate \in Rates, taxable_spend \in BOOLEAN :
                      OnlyLedgerOf(asset,
                                   SpendAssetOutcome(location, t, asset, amount, rate,
                                                     taxable_spend).w.events)
        /\ \A amount \in LotAmounts, t \in Timestamps, rate \in Rates :
               OnlyLedgerOf(asset, obtain_asset(World, asset, amount, t, rate).events)
        /\ OnlyLedgerOf(asset, get_calculated_asset_amount(_events, asset).events)

\* a taxable spend of ETH that used up the acquisition of ETH, with an
\* acquisition of EUR pending, whole, in a ledger without spends
C23_Witness ==
    /\ call = "spend_asset"
    /\ ret.type = "CostBasisInfo"
    /\ ret.is_complete
    /\ DOMAIN _events = {A_ETH, A_EUR}
    /\ IdsOf(_events[A_ETH].used_acquisitions) = <<1>>
    /\ Len(_events[A_ETH].spends) = 1
    /\ IdsOf(_events[A_EUR].acquisitions) = <<2>>
    /\ _events[A_EUR].acquisitions[1].remaining_amount
           = _events[A_EUR].acquisitions[1].amount
    /\ _events[A_EUR].spends = <<>>
    /\ _events[A_EUR].used_acquisitions = <<>>

====
